---- MODULE Spec2Model ----
(***************************************************************************)
(* A model of the Safari AppleScript MCP server (src/server/index.js):     *)
(* the line framing of standard input, the JSON-RPC dispatcher, the tool   *)
(* call handler with its availability probe, and the retrying executor.    *)
(*                                                                         *)
(* Text is a sequence of one-character strings.  A JavaScript value that   *)
(* may be undefined is the string "undefined" when it is; JSON.stringify   *)
(* leaves such a member out of the object it writes.                       *)
(***************************************************************************)
EXTENDS Integers, Sequences, FiniteSets, TLC

VARIABLES
    buffer,       \* setupStdio: the closure variable `buffer`
    received,     \* history: every character delivered to the data listener
    dispatched,   \* history: the arguments of the calls of handleMessage made by the data listener
    ended,        \* standard input has ended
    initialized,  \* SafariMCPServer.initialized
    calls,        \* one entry per line handed to handleMessage: the request and the position of its asynchronous chain
    out,          \* the responses written to standard output, in order
    fn,           \* the function or handler whose call is examined on its own ("none" before the call)
    arg,          \* the argument of that call
    ret           \* what that call returned

vars == <<buffer, received, dispatched, ended, initialized, calls, out, fn, arg, ret>>

framingVars == <<buffer, received, dispatched, ended>>
serverVars == <<initialized, calls, out>>
callVars == <<fn, arg, ret>>

-----------------------------------------------------------------------------
(* Program constants *)

APPLESCRIPT_TIMEOUT == 10000
MAX_RETRIES == 3
RETRY_DELAY == 1000

(* Bounds of the model *)

\* the number of characters of one chunk of input
MaxChunk == 2
\* the number of characters of input in all
MaxInput == 5
\* the number of lines handed to handleMessage
MaxMessages == 2

Undefined == "undefined"
Null == "null"

-----------------------------------------------------------------------------
(* Text *)

NL == "\n"
Chars == {"a", "b", " ", NL}

\* String.prototype.trim: the white space of the model's alphabet
IsSpace(c) == c \in {" ", "\n", "\r", "\t"}

RECURSIVE TrimStart(_)
TrimStart(s) ==
    IF s # <<>> /\ IsSpace(Head(s)) THEN TrimStart(Tail(s)) ELSE s

RECURSIVE TrimEnd(_)
TrimEnd(s) ==
    IF s # <<>> /\ IsSpace(s[Len(s)]) THEN TrimEnd(SubSeq(s, 1, Len(s) - 1)) ELSE s

Trim(s) == TrimEnd(TrimStart(s))

\* String.prototype.split('\n'): the pieces between the newlines, at least one
RECURSIVE SplitNL(_, _)
SplitNL(s, piece) ==
    IF s = <<>> THEN <<piece>>
    ELSE IF Head(s) = NL THEN <<piece>> \o SplitNL(Tail(s), <<>>)
    ELSE SplitNL(Tail(s), Append(piece, Head(s)))

Split(s) == SplitNL(s, <<>>)

\* all texts over Chars of length 1..n
TextsUpTo(n) == UNION {[1..k -> Chars] : k \in 1..n}

-----------------------------------------------------------------------------
(* setupStdio: the 'data' listener *)

\* a listener that forgets the incomplete line
KeptBuffer_Dropped(lines) == <<>>

\* lines.pop() || '' : the piece after the last newline stays in the buffer
KeptBuffer(lines) == lines[Len(lines)]

\* a listener that hands over the non-blank lines as they are, white space included
RECURSIVE ForEachLine_Untrimmed(_)
ForEachLine_Untrimmed(lines) ==
    IF lines = <<>> THEN <<>>
    ELSE (IF Trim(Head(lines)) # <<>> THEN <<Head(lines)>> ELSE <<>>)
         \o ForEachLine_Untrimmed(Tail(lines))

\* lines.forEach: the trimmed non-blank lines, in order, each handed to handleMessage
RECURSIVE ForEachLine(_)
ForEachLine(lines) ==
    IF lines = <<>> THEN <<>>
    ELSE (IF Trim(Head(lines)) # <<>> THEN <<Trim(Head(lines))>> ELSE <<>>)
         \o ForEachLine(Tail(lines))

\* a listener that hands over every piece, the one after the last newline too
OnData_EveryPiece(buf, data) ==
    LET lines == Split(buf \o data)
    IN  [buffer |-> KeptBuffer(lines), messages |-> ForEachLine(lines)]

\* what one 'data' event does to the buffer, and the messages it dispatches
OnData(buf, data) ==
    LET lines == Split(buf \o data)
    IN  [buffer |-> KeptBuffer(lines),
         messages |-> ForEachLine(SubSeq(lines, 1, Len(lines) - 1))]

Data(data) ==
    /\ ~ended
    /\ Len(received) + Len(data) <= MaxInput
    /\ LET r == OnData(buffer, data)
       IN  /\ buffer' = r.buffer
           /\ dispatched' = dispatched \o r.messages
    /\ received' = received \o data
    /\ UNCHANGED <<ended, serverVars, callVars>>

\* the stream ends: no 'end' listener is registered, so nothing is flushed
StdinEnd ==
    /\ ~ended
    /\ ended' = TRUE
    /\ UNCHANGED <<buffer, received, dispatched, serverVars, callVars>>

-----------------------------------------------------------------------------
(* Requests *)

\* request.params.arguments: an object with the members the modelled tools read, or undefined
NoArguments == [present |-> FALSE, direct_parameter_required_file |-> Undefined]
ArgumentObjects ==
    {NoArguments}
    \cup {[present |-> TRUE, direct_parameter_required_file |-> v] : v \in {Undefined, "/a.html"}}

\* the tools of the switch that the model keeps, one of each shape of handler
KnownTools == {"open", "count_document"}
staticFunctions == {"get_all_classes", "get_all_properties_of", "get_parsed_sdef"}

\* request.params: an object, or undefined
NoParams == [present |-> FALSE, name |-> Undefined, arguments |-> NoArguments]
Params(n, a) == [present |-> TRUE, name |-> n, arguments |-> a]
WithFile(v) == [present |-> TRUE, direct_parameter_required_file |-> v]
ParamObjects ==
    {Params("open", a) : a \in ArgumentObjects}
    \cup {Params("count_document", NoArguments),
          Params("no_such_tool", WithFile("/a.html")),
          Params("get_all_classes", WithFile(Undefined)),
          Params(Undefined, NoArguments)}

\* the params of the tools/call lines that arrive without an id
NotifiedParamObjects ==
    {Params("count_document", NoArguments), Params("get_all_classes", WithFile(Undefined))}

Methods == {"initialize", "initialized", "tools/list", "tools/call", "resources/list"}

\* the id of the k-th line when it carries one
IdOf(k) == <<"1", "2", "3", "4">>[k]

\* a line that JSON.parse rejects
Malformed == [wellFormed |-> FALSE, method |-> Undefined, id |-> Undefined, params |-> NoParams]

\* the lines that may arrive as the k-th message
Lines(k) ==
    {Malformed}
    \cup {[wellFormed |-> TRUE, method |-> m, id |-> i, params |-> NoParams] :
            m \in Methods, i \in {Undefined, IdOf(k)}}
    \cup {[wellFormed |-> TRUE, method |-> "tools/call", id |-> IdOf(k), params |-> p] :
            p \in ParamObjects}
    \cup {[wellFormed |-> TRUE, method |-> "tools/call", id |-> Undefined, params |-> p] :
            p \in NotifiedParamObjects}

-----------------------------------------------------------------------------
(* Responses *)

NoText == <<>>

\* JSON.stringify leaves out the members whose value is undefined
Stringify(members, p) ==
    [p EXCEPT !.members =
        members \ ((IF p.tool = Undefined THEN {"tool"} ELSE {})
                   \cup (IF p.arguments.present THEN {} ELSE {"args"}))]

BlankPayload ==
    [members |-> {}, success |-> TRUE, error |-> Undefined, tool |-> Undefined,
     arguments |-> NoArguments, message |-> NoText]

\* a failure reported as a JSON-RPC error
Response_RpcError(k, request, body, payload) ==
    [req |-> k, id |-> request.id, member |-> IF payload.success THEN "result" ELSE "error",
     body |-> body, payload |-> payload]

\* the response object handed to sendResponse; req is the index of the line it answers (history)
Response(k, request, body, payload) ==
    [req |-> k, id |-> request.id, member |-> "result", body |-> body, payload |-> payload]

\* sendResponse: one write of the serialized response and a newline
sendResponse(o, response) == Append(o, response)

-----------------------------------------------------------------------------
(* executeAppleScript *)

\* the rejections of execFile: a non-zero exit status, the process killed after
\* APPLESCRIPT_TIMEOUT, more output than maxBuffer
FailKinds == {"exit", "timeout", "maxBuffer"}

\* error.message of the rejection of execFile
FailMessage(kind) ==
    CASE kind = "exit" -> "Command failed: osascript -e (exit 1)"
      [] kind = "timeout" -> "Command failed: osascript -e (killed)"
      [] kind = "maxBuffer" -> "stdout maxBuffer length exceeded"

Available == <<"a", "v", "a", "i", "l", "a", "b", "l", "e">>
ErrorText == <<"E", "r", "r", "o", "r">>

\* what a run of the probe script may print when it exits with status 0
ProbeStdouts == {Available \o <<NL>>}
\* what a run of a handler script may print when it exits with status 0
HandlerStdouts == {<<" ", "1", NL>>, ErrorText \o <<NL>>}

NoRun == [stdout |-> NoText, stderr |-> FALSE]

Outcomes(what) ==
    {[ok |-> TRUE, stdout |-> s, stderr |-> e, kind |-> "none"] :
        s \in (IF what = "probe" THEN ProbeStdouts ELSE HandlerStdouts), e \in BOOLEAN}
    \cup {[ok |-> FALSE, stdout |-> NoText, stderr |-> FALSE, kind |-> f] : f \in FailKinds}

Event(ev, what, d) == [ev |-> ev, what |-> what, d |-> d]

\* a backoff that grows by RETRY_DELAY instead of doubling
Backoff_Linear(attempt) == RETRY_DELAY * (attempt + 1)

\* setTimeout(resolve, RETRY_DELAY * Math.pow(2, attempt))
Backoff(attempt) == RETRY_DELAY * 2^attempt

\* the catch of the loop: give up exactly when attempt === retries
GivesUp(attempt) == attempt = MAX_RETRIES

\* the message of the error thrown after the last attempt
WrappedError(kind) == "AppleScript error: " \o FailMessage(kind)

\* stdout returned as printed
ExecResult_Raw(outcome) == outcome.stdout

\* return stdout.trim()
ExecResult(outcome) == Trim(outcome.stdout)

\* executeAppleScript(script): attempt = 0 and the first execFile;
\* trace, ran, value, error and lastFail are the history of this invocation
ExecStart(c, what) ==
    [c EXCEPT !.pc = what, !.attempt = 0, !.phase = "running", !.exec = "running",
              !.started = @ \cup {what}, !.lastFail = "none", !.ran = NoRun,
              !.value = NoText, !.error = Undefined,
              !.trace = <<Event("spawn", what, 0)>>]

\* the timer of the backoff fires: attempt++ and the next execFile
ExecRetry(c) ==
    [c EXCEPT !.attempt = @ + 1, !.phase = "running",
              !.trace = Append(@, Event("spawn", c.pc, 0))]

\* a failed run that is not the last: start the timer
ExecWait(c, kind) ==
    [c EXCEPT !.phase = "waiting", !.lastFail = kind,
              !.trace = Append(@, Event("wait", c.pc, Backoff(c.attempt)))]

\* a run that exits with status 0: stderr is logged, the trimmed stdout is returned
ExecReturn(c, outcome) ==
    [c EXCEPT !.phase = "idle", !.exec = "returned",
              !.ran = [stdout |-> outcome.stdout, stderr |-> outcome.stderr],
              !.value = ExecResult(outcome)]

\* the last run has failed: throw new Error(`AppleScript error: ${error.message}`)
ExecThrow(c, kind) ==
    [c EXCEPT !.phase = "idle", !.exec = "threw", !.lastFail = kind,
              !.error = WrappedError(kind)]

\* a probe that reports available whatever the executor did
checkSafariAvailable_Always(c) == TRUE

\* checkSafariAvailable: result === "available", and false when the executor threw
checkSafariAvailable(c) == c.exec = "returned" /\ c.value = Available

-----------------------------------------------------------------------------
(* handleToolsCall *)

\* the entry of a line: the request, the position of its chain (pc, attempt, phase),
\* and the history of the chain (probe, started, result and the executor's history)
NewCall(request) ==
    [req |-> request, pc |-> "done", attempt |-> 0, phase |-> "idle",
     probe |-> "none", started |-> {}, result |-> "dropped",
     exec |-> "none", lastFail |-> "none", ran |-> NoRun, value |-> NoText,
     error |-> Undefined, trace |-> <<>>]

Finish(c, result) == [c EXCEPT !.pc = "done", !.phase = "idle", !.result = result]

\* if (!staticFunctions.includes(request.params.name))
NeedsProbe(name) == name \notin staticFunctions

\* the payload of the availability branch
UnavailablePayload ==
    [BlankPayload EXCEPT !.members = {"success", "error"}, !.success = FALSE,
                         !.error = "Application is not available or not running"]

\* a catch that reports the error alone
CatchPayload_NoEcho(request, message) ==
    [BlankPayload EXCEPT !.members = {"success", "error"}, !.success = FALSE,
                         !.error = message]

\* the payload of the catch of handleToolsCall
CatchPayload(request, message) ==
    Stringify({"success", "error", "tool", "args"},
              [BlankPayload EXCEPT !.success = FALSE, !.error = message,
                                   !.tool = request.params.name,
                                   !.arguments = request.params.arguments])

\* the object a handler returns after its script has run
HandlerPayload(result) ==
    [BlankPayload EXCEPT !.members = {"success", "message", "script"},
                         !.success = (result # ErrorText), !.message = result]

Throws(message) == [throws |-> TRUE, error |-> message]
Runs == [throws |-> FALSE, error |-> Undefined]

\* open(direct_parameter_required_file), up to its call of executeAppleScript
open(v) ==
    IF v = Undefined \/ v = Null
    THEN Throws("direct_parameter_required_file is required")
    ELSE Runs

\* countDocument(), up to its call of executeAppleScript
countDocument == Runs

\* a default case that does not name the tool
SwitchTool_Unnamed(params) ==
    CASE params.name = "open" ->
            IF ~params.arguments.present
            THEN Throws("Cannot read properties of undefined (reading 'direct_parameter_required_file')")
            ELSE open(params.arguments.direct_parameter_required_file)
      [] params.name = "count_document" -> countDocument
      [] OTHER -> Throws("Unknown tool")

\* const { name, arguments: args } = request.params; switch (name) { ... }
SwitchTool(params) ==
    CASE params.name = "open" ->
            IF ~params.arguments.present
            THEN Throws("Cannot read properties of undefined (reading 'direct_parameter_required_file')")
            ELSE open(params.arguments.direct_parameter_required_file)
      [] params.name = "count_document" -> countDocument
      [] OTHER -> Throws("Unknown tool: " \o params.name)

\* a catch that logs the error and writes nothing
ToolsCallCatch_Silent(k, c, o, message) ==
    [c |-> Finish(c, "threw"), o |-> o]

\* the catch of handleToolsCall: a response with the failure payload
ToolsCallCatch(k, c, o, message) ==
    [c |-> Finish(c, "threw"),
     o |-> sendResponse(o, Response(k, c.req, "content", CatchPayload(c.req, message)))]

\* the switch and what follows it until the handler's script is started or has thrown
RunSwitch(k, c, o) ==
    LET s == SwitchTool(c.req.params)
    IN  IF s.throws THEN ToolsCallCatch(k, c, o, s.error)
        ELSE [c |-> ExecStart(c, "handler"), o |-> o]

\* the availability branch without its return
AfterProbe_NoReturn(k, c, o, isSafariAvailable) ==
    IF ~isSafariAvailable
    THEN RunSwitch(k, [c EXCEPT !.probe = "unavailable"],
                   sendResponse(o, Response(k, c.req, "content", UnavailablePayload)))
    ELSE RunSwitch(k, [c EXCEPT !.probe = "available"], o)

\* checkSafariAvailable has answered
AfterProbe(k, c, o, isSafariAvailable) ==
    IF ~isSafariAvailable
    THEN [c |-> Finish([c EXCEPT !.probe = "unavailable"], "unavailable"),
          o |-> sendResponse(o, Response(k, c.req, "content", UnavailablePayload))]
    ELSE RunSwitch(k, [c EXCEPT !.probe = "available"], o)

\* a response built from the request that was received last
AfterHandler_LatestRequest(k, c, o, result) ==
    [c |-> Finish(c, "returned"),
     o |-> sendResponse(o, Response(k, calls[Len(calls)].req, "content", HandlerPayload(result)))]

\* the handler's script has returned result
AfterHandler(k, c, o, result) ==
    [c |-> Finish(c, "returned"),
     o |-> sendResponse(o, Response(k, c.req, "content", HandlerPayload(result)))]

\* a handler whose probe is started by a later turn of the event loop
handleToolsCall_Deferred(k, request, o) ==
    IF ~request.params.present
    THEN [c |-> NewCall(request), o |-> o]
    ELSE IF NeedsProbe(request.params.name)
    THEN [c |-> [ExecStart(NewCall(request), "probe") EXCEPT
                    !.attempt = -1, !.phase = "waiting", !.trace = <<>>],
          o |-> o]
    ELSE RunSwitch(k, NewCall(request), o)

\* handleToolsCall, up to its first await
handleToolsCall(k, request, o) ==
    IF ~request.params.present
    THEN \* request.params.name throws before the try: handleMessage catches and logs
         [c |-> NewCall(request), o |-> o]
    ELSE IF NeedsProbe(request.params.name)
    THEN [c |-> ExecStart(NewCall(request), "probe"), o |-> o]
    ELSE RunSwitch(k, NewCall(request), o)

-----------------------------------------------------------------------------
(* handleMessage *)

handleInitialize(k, request, o) ==
    [c |-> Finish(NewCall(request), "answered"),
     o |-> sendResponse(o, Response(k, request, "initialize", BlankPayload))]

\* the notification flips the flag
handleInitialized_Toggle(flag) == ~flag

\* this.initialized = true
handleInitialized(flag) == TRUE

handleToolsList(k, request, o) ==
    [c |-> Finish(NewCall(request), "answered"),
     o |-> sendResponse(o, Response(k, request, "tools/list", BlankPayload))]

\* a line that cannot be parsed is answered with an error
handleMessage_ParseError(k, request, o, flag) ==
    LET dropped == [c |-> NewCall(request), o |-> o]
        r == CASE ~request.wellFormed ->
                    [c |-> NewCall(request),
                     o |-> sendResponse(o, Response(k, request, "parse error", BlankPayload))]
               [] request.method = "initialize" -> handleInitialize(k, request, o)
               [] request.method = "tools/list" -> handleToolsList(k, request, o)
               [] request.method = "tools/call" -> handleToolsCall(k, request, o)
               [] OTHER -> dropped
    IN  [c |-> r.c, o |-> r.o,
         initialized |-> IF request.wellFormed /\ request.method = "initialized"
                         THEN handleInitialized(flag) ELSE flag]

\* a dispatcher that drops tools/list and tools/call until `initialized` has been received
handleMessage_Gated(k, request, o, flag) ==
    LET dropped == [c |-> NewCall(request), o |-> o]
        r == CASE ~request.wellFormed -> dropped
               [] request.method = "initialize" -> handleInitialize(k, request, o)
               [] request.method = "tools/list" /\ flag -> handleToolsList(k, request, o)
               [] request.method = "tools/call" /\ flag -> handleToolsCall(k, request, o)
               [] OTHER -> dropped
    IN  [c |-> r.c, o |-> r.o,
         initialized |-> IF request.wellFormed /\ request.method = "initialized"
                         THEN handleInitialized(flag) ELSE flag]

\* handleMessage(data), up to its first await: the call entry, the output and the flag
handleMessage(k, request, o, flag) ==
    LET dropped == [c |-> NewCall(request), o |-> o]
        r == CASE ~request.wellFormed -> dropped
               [] request.method = "initialize" -> handleInitialize(k, request, o)
               [] request.method = "initialized" -> dropped
               [] request.method = "tools/list" -> handleToolsList(k, request, o)
               [] request.method = "tools/call" -> handleToolsCall(k, request, o)
               [] OTHER -> dropped
    IN  [c |-> r.c, o |-> r.o,
         initialized |-> IF request.wellFormed /\ request.method = "initialized"
                         THEN handleInitialized(flag) ELSE flag]

\* the data listener hands one complete line to handleMessage
Dispatch(request) ==
    /\ Len(calls) < MaxMessages
    /\ LET r == handleMessage(Len(calls) + 1, request, out, initialized)
       IN  /\ calls' = Append(calls, r.c)
           /\ out' = r.o
           /\ initialized' = r.initialized
    /\ UNCHANGED <<framingVars, callVars>>

\* the interpreter process of call k ends, and the chain runs to its next await
ProcExit(k, outcome) ==
    /\ k \in DOMAIN calls
    /\ calls[k].phase = "running"
    /\ outcome \in Outcomes(calls[k].pc)
    /\ LET c == calls[k]
           e == IF outcome.ok THEN ExecReturn(c, outcome)
                ELSE IF GivesUp(c.attempt) THEN ExecThrow(c, outcome.kind)
                ELSE ExecWait(c, outcome.kind)
           r == CASE e.exec = "running" -> [c |-> e, o |-> out]
                  [] c.pc = "probe" -> AfterProbe(k, e, out, checkSafariAvailable(e))
                  [] e.exec = "returned" -> AfterHandler(k, e, out, e.value)
                  [] OTHER -> ToolsCallCatch(k, e, out, e.error)
       IN  /\ calls' = [calls EXCEPT ![k] = r.c]
           /\ out' = r.o
    /\ UNCHANGED <<initialized, framingVars, callVars>>

\* the backoff timer of call k fires
TimerFire(k) ==
    /\ k \in DOMAIN calls
    /\ calls[k].phase = "waiting"
    /\ calls' = [calls EXCEPT ![k] = ExecRetry(calls[k])]
    /\ UNCHANGED <<out, initialized, framingVars, callVars>>

InitFraming ==
    /\ buffer = <<>>
    /\ received = <<>>
    /\ dispatched = <<>>
    /\ ended = FALSE

InitServer ==
    /\ initialized = FALSE
    /\ calls = <<>>
    /\ out = <<>>

\* no function is examined on its own
NoCall ==
    /\ fn = "none"
    /\ arg = Undefined
    /\ ret = Undefined

Init == InitFraming /\ InitServer /\ NoCall

NextFraming ==
    \/ \E data \in TextsUpTo(MaxChunk) : Data(data)
    \/ StdinEnd

SpecFraming == Init /\ [][NextFraming]_vars

AllOutcomes == Outcomes("probe") \cup Outcomes("handler")

Next ==
    \/ \E request \in Lines(Len(calls) + 1) : Dispatch(request)
    \/ \E k \in 1..MaxMessages : \E outcome \in AllOutcomes : ProcExit(k, outcome)
    \/ \E k \in 1..MaxMessages : TimerFire(k)

Spec == Init /\ [][Next]_vars

\* a process ends within APPLESCRIPT_TIMEOUT, and a timer that was set fires
Fairness ==
    \A k \in 1..MaxMessages :
        /\ WF_vars(\E outcome \in AllOutcomes : ProcExit(k, outcome))
        /\ WF_vars(TimerFire(k))

FairSpec == Spec /\ Fairness

-----------------------------------------------------------------------------
(* Properties of the dispatcher *)

ResponsesTo(k) == {j \in DOMAIN out : out[j].req = k}

HasId(request) == request.wellFormed /\ request.id # Undefined

IsToolsCall(request) ==
    request.wellFormed /\ request.method = "tools/call" /\ request.params.present

\* the methods with a handler that answers
Answerable(request) ==
    \/ request.wellFormed /\ request.method \in {"initialize", "tools/list"}
    \/ IsToolsCall(request)

SameId(k) == \A j \in ResponsesTo(k) : out[j].id = calls[k].req.id

-----------------------------------------------------------------------------
(* Properties of handleToolsCall *)

\* the responses written for tools/call requests
ToolResponses == {j \in DOMAIN out : IsToolsCall(calls[out[j].req].req)}

CallOf(j) == calls[out[j].req]

\* C2: every response to a tools/call has a result member, never an error member, and
\* a failure (handler throw, unknown tool, unavailable application, executor failure
\* after retries) shows only as success:false in the payload of the result.
C2_AlwaysResult ==
    \A j \in ToolResponses :
        /\ out[j].member = "result"
        /\ out[j].body = "content"
        /\ "success" \in out[j].payload.members
        /\ (CallOf(j).result \in {"threw", "unavailable"} => ~out[j].payload.success)

\* C2 witness: the response to a call whose script failed on all its attempts
C2_Witness ==
    \E j \in ToolResponses :
        /\ CallOf(j).result = "threw" /\ CallOf(j).exec = "threw"
        /\ out[j].member = "result" /\ ~out[j].payload.success

\* C3 as stated: every failure payload of a tools/call, the one of the unavailable
\* application included, has the four members success, error, tool and args.
C3_FourMembersAlways ==
    \A j \in ToolResponses :
        CallOf(j).result \in {"threw", "unavailable"}
            => {"success", "error", "tool", "args"} \subseteq out[j].payload.members

\* the members of request.params that are defined
Echoed(params) ==
    (IF params.name # Undefined THEN {"tool"} ELSE {})
    \cup (IF params.arguments.present THEN {"args"} ELSE {})

\* C3 amended: a failure thrown while handling a tools/call (argument access,
\* validation, unknown tool, executor error after retries) gives a payload with
\* success:false, error, and tool and args equal to the name and the arguments of the
\* request, each left out when the request does not carry it; the unavailable
\* application gives a payload with the two members success:false and error only.
C3_FailurePayloads ==
    \A j \in ToolResponses :
        LET p == out[j].payload
            params == CallOf(j).req.params
        IN  /\ CallOf(j).result = "threw" =>
                /\ p.members = {"success", "error"} \cup Echoed(params)
                /\ ~p.success
                /\ p.error # Undefined
                /\ p.tool = params.name
                /\ p.arguments = params.arguments
            /\ CallOf(j).result = "unavailable" =>
                /\ p.members = {"success", "error"}
                /\ ~p.success
                /\ p.error = "Application is not available or not running"

\* C3 witness: a validation failure whose payload echoes the tool and the arguments
C3_Witness ==
    \E j \in ToolResponses :
        /\ CallOf(j).result = "threw"
        /\ out[j].payload.error = "direct_parameter_required_file is required"
        /\ out[j].payload.members = {"success", "error", "tool", "args"}
        /\ out[j].payload.tool = "open"

UnknownTool(request) == IsToolsCall(request) /\ request.params.name \notin KnownTools

\* C4 as stated: an unknown tool name is answered with success:false and the error
\* "Unknown tool: <name>", whatever the availability probe reports.
C4_UnknownToolWhateverProbe ==
    \A k \in DOMAIN calls :
        (UnknownTool(calls[k].req) /\ calls[k].pc = "done") =>
            /\ Cardinality(ResponsesTo(k)) = 1
            /\ \A j \in ResponsesTo(k) :
                /\ ~out[j].payload.success
                /\ out[j].payload.error = "Unknown tool: " \o calls[k].req.params.name

\* C4 amended: an unknown tool name is always answered, with success:false: with the
\* error "Unknown tool: <name>" when the name is on the static allow-list or the probe
\* reports available, and with "Application is not available or not running" when the
\* probe reports unavailable.
C4_UnknownToolAnswered ==
    \A k \in DOMAIN calls :
        (UnknownTool(calls[k].req) /\ calls[k].pc = "done") =>
            /\ Cardinality(ResponsesTo(k)) = 1
            /\ \A j \in ResponsesTo(k) :
                /\ out[j].member = "result"
                /\ ~out[j].payload.success
                /\ out[j].payload.error =
                     IF calls[k].probe = "unavailable"
                     THEN "Application is not available or not running"
                     ELSE "Unknown tool: " \o calls[k].req.params.name

\* C4 witness: an unknown name answered after the probe reported available
C4_Witness ==
    \E k \in DOMAIN calls :
        /\ UnknownTool(calls[k].req) /\ calls[k].probe = "available"
        /\ \E j \in ResponsesTo(k) : out[j].payload.error = "Unknown tool: no_such_tool"

\* C5: for a name that is not on the allow-list the probe has run and reported
\* available before a handler script is started; when it reports unavailable the call
\* is answered with {success:false, error:"Application is not available or not
\* running"} and no handler script is ever started; for a name on the allow-list no
\* probe is run.
C5_ProbeBeforeHandler ==
    \A k \in DOMAIN calls :
        LET c == calls[k]
            name == c.req.params.name
        IN  IsToolsCall(c.req) =>
            /\ (name \in staticFunctions) => ("probe" \notin c.started /\ c.probe = "none")
            /\ (name \notin staticFunctions) =>
                /\ "probe" \in c.started
                /\ ("handler" \in c.started => c.probe = "available")
                /\ (c.pc = "probe" => c.probe = "none")
                /\ (c.pc = "done" => c.probe # "none")
            /\ (c.probe = "unavailable") =>
                /\ c.pc = "done"
                /\ "handler" \notin c.started
                /\ \A e \in DOMAIN c.trace : c.trace[e].what = "probe"
                /\ Cardinality(ResponsesTo(k)) = 1
                /\ \A j \in ResponsesTo(k) :
                    /\ out[j].payload.members = {"success", "error"}
                    /\ ~out[j].payload.success
                    /\ out[j].payload.error = "Application is not available or not running"

\* C5 witness: a known tool with valid arguments is refused because the probe failed
\* on all its attempts, and another call runs its handler after an available probe
C5_Witness ==
    /\ \E k \in DOMAIN calls :
        /\ calls[k].req.params.name = "count_document"
        /\ calls[k].probe = "unavailable" /\ calls[k].exec = "threw"
        /\ ResponsesTo(k) # {}
    /\ \E k \in DOMAIN calls :
        /\ calls[k].probe = "available" /\ calls[k].pc = "handler"

\* C6: a message without an id is a notification: no response is written for it,
\* whatever its method.
C6_NotificationsUnanswered ==
    \A j \in DOMAIN out : calls[out[j].req].req.id # Undefined

-----------------------------------------------------------------------------
(* Properties of executeAppleScript *)

Count(trace, ev) == Cardinality({e \in DOMAIN trace : trace[e].ev = ev})

\* the history of an invocation whose four runs all fail
ExhaustedTrace(what) ==
    <<Event("spawn", what, 0), Event("wait", what, 1000),
      Event("spawn", what, 0), Event("wait", what, 2000),
      Event("spawn", what, 0), Event("wait", what, 4000),
      Event("spawn", what, 0)>>

\* C7: when every run of a script fails, whatever the kind of failure, execute makes
\* exactly 4 attempts and waits exactly three times, 1s, 2s and 4s, each between two
\* attempts and none after the fourth, then raises an error that wraps the message of
\* the last failure; the attempt counter never exceeds 3.
C7_RetryExhaustion ==
    \A k \in DOMAIN calls :
        LET c == calls[k]
        IN  /\ c.attempt <= 3
            /\ c.exec = "threw" =>
                /\ c.attempt = 3
                /\ \E what \in {"probe", "handler"} : c.trace = ExhaustedTrace(what)
                /\ c.lastFail \in FailKinds
                /\ c.error = "AppleScript error: " \o FailMessage(c.lastFail)
                /\ ("handler" \in c.started =>
                        \A j \in ResponsesTo(k) : out[j].payload.error = c.error)

\* C7 witness: a handler script has failed four times and the failure is reported
C7_Witness ==
    \E k \in DOMAIN calls :
        /\ calls[k].exec = "threw" /\ "handler" \in calls[k].started
        /\ calls[k].lastFail = "maxBuffer"
        /\ \E j \in ResponsesTo(k) :
            out[j].payload.error = "AppleScript error: stdout maxBuffer length exceeded"

\* text is white space only
Blank(t) == \A i \in DOMAIN t : IsSpace(t[i])

\* v is t without its leading and trailing white space
IsTrimOf(v, t) ==
    /\ v = <<>> \/ (~IsSpace(v[1]) /\ ~IsSpace(v[Len(v)]))
    /\ \E a \in 0..Len(t) : \E b \in a..Len(t) :
        /\ SubSeq(t, a + 1, b) = v
        /\ Blank(SubSeq(t, 1, a))
        /\ Blank(SubSeq(t, b + 1, Len(t)))

\* C8: when the first successful run is attempt n, execute returns the stdout of that
\* run trimmed, after exactly n+1 processes and n delays, and starts no process after
\* it, whether or not the run wrote to stderr.
C8_FirstSuccessReturns ==
    \A k \in DOMAIN calls :
        LET c == calls[k]
        IN  c.exec = "returned" =>
            /\ IsTrimOf(c.value, c.ran.stdout)
            /\ Count(c.trace, "spawn") = c.attempt + 1
            /\ Count(c.trace, "wait") = c.attempt
            /\ c.trace[Len(c.trace)].ev = "spawn"
            /\ c.phase = "idle"
            /\ ("handler" \in c.started =>
                    /\ c.result = "returned"
                    /\ \A j \in ResponsesTo(k) : out[j].payload.message = c.value)

\* C8 witness: a handler script succeeds on its third run, with text on stderr
C8_Witness ==
    \E k \in DOMAIN calls :
        /\ calls[k].exec = "returned" /\ "handler" \in calls[k].started
        /\ calls[k].attempt = 2 /\ calls[k].ran.stderr
        /\ calls[k].value = <<"1">>
        /\ ResponsesTo(k) # {}

-----------------------------------------------------------------------------
(* Properties of the framing *)

Newlines(t) == {i \in DOMAIN t : t[i] = NL}

\* the first position of the line that the newline at position e ends
LineStart(t, e) ==
    LET before == {i \in Newlines(t) : i < e}
    IN  IF before = {} THEN 1 ELSE (CHOOSE i \in before : \A j \in before : j <= i) + 1

\* the line that the newline at position e ends, without the newline
LineEndingAt(t, e) == SubSeq(t, LineStart(t, e), e - 1)

\* the trimmed non-blank newline-terminated lines of t whose newline is after position p
RECURSIVE TerminatedLines(_, _)
TerminatedLines(t, p) ==
    LET after == {i \in Newlines(t) : i > p}
    IN  IF after = {} THEN <<>>
        ELSE LET e == CHOOSE i \in after : \A j \in after : i <= j
                 line == Trim(LineEndingAt(t, e))
             IN  (IF line = <<>> THEN <<>> ELSE <<line>>) \o TerminatedLines(t, e)

\* C9: a line is dispatched only after its newline has been received: every
\* dispatched message is a line of the input received so far that a newline ends,
\* there are no more of them than newlines, and the text after the last newline is
\* not dispatched, not even when the stream has ended.
C9_NoLineBeforeNewline ==
    /\ Len(dispatched) <= Cardinality(Newlines(received))
    /\ \A i \in DOMAIN dispatched :
        \E e \in Newlines(received) : dispatched[i] = Trim(LineEndingAt(received, e))
    /\ Len(dispatched) = Len(TerminatedLines(received, 0))

\* C9 witness: the stream has ended with text after the last newline, a line before it
\* has been dispatched, and the text after it has not
C9_Witness ==
    /\ ended
    /\ received = <<"a", NL, "b">>
    /\ dispatched = <<<<"a">>>>
    /\ buffer = <<"b">>

\* C10: the dispatched messages do not depend on how the input is cut into chunks:
\* they are the messages that the whole input delivered as one chunk gives, which are
\* the newline-terminated lines in order (trimmed, the blank ones left out), and the
\* buffer is the same too.
C10_ChunkingIndependent ==
    /\ dispatched = OnData(<<>>, received).messages
    /\ buffer = OnData(<<>>, received).buffer
    /\ dispatched = TerminatedLines(received, 0)

\* C10 witness: two lines dispatched, the second longer than a chunk with its newline,
\* so that it arrived in pieces
C10_Witness ==
    /\ received = <<"a", NL, "a", "b", NL>>
    /\ dispatched = <<<<"a">>, <<"a", "b">>>>
    /\ buffer = <<>>

-----------------------------------------------------------------------------
(* Dropped lines and the readiness flag *)

\* a line that handleMessage drops: JSON.parse rejects it, or its method is not one of the four
IsDropped(request) ==
    \/ ~request.wellFormed
    \/ request.method \notin {"initialize", "initialized", "tools/list", "tools/call"}

\* the step hands one more line to handleMessage
Dispatches == Len(calls') = Len(calls) + 1
Dispatching == calls'[Len(calls')].req

\* C11: a line that is not valid JSON, or a request whose method is unknown, is dropped
\* on its own: the step that handles it writes no response, leaves the readiness flag,
\* the framing buffer and every call in progress as they were and starts no process; its
\* entry stays inert for ever; and the stream goes on: a line that comes after it is
\* handled exactly as handleMessage handles it on the output and the flag that the
\* dropped line left untouched.
C11_BadLineDroppedAlone ==
    /\ [][Dispatches /\ IsDropped(Dispatching) =>
            /\ out' = out
            /\ initialized' = initialized
            /\ buffer' = buffer /\ dispatched' = dispatched /\ ended' = ended
            /\ SubSeq(calls', 1, Len(calls)) = calls
            /\ calls'[Len(calls')] = NewCall(Dispatching)]_vars
    /\ [](\A k \in DOMAIN calls :
            IsDropped(calls[k].req) => calls[k] = NewCall(calls[k].req) /\ ResponsesTo(k) = {})
    /\ [][Dispatches /\ Len(calls) > 0 /\ IsDropped(calls[Len(calls)].req) =>
            LET r == handleMessage(Len(calls'), Dispatching, out, initialized)
            IN  /\ calls'[Len(calls')] = r.c
                /\ out' = r.o
                /\ initialized' = r.initialized]_vars

\* C11 witness: a malformed line and then an initialize request with an id; the request
\* has been answered and the malformed line has left nothing behind
C11_Witness ==
    /\ Len(calls) = 2
    /\ ~calls[1].req.wellFormed
    /\ calls[2].req.method = "initialize" /\ HasId(calls[2].req)
    /\ Len(out) = 1 /\ out[1].req = 2
    /\ ~initialized

\* the well-formed lines with method `initialized` handled so far
InitializedLines ==
    {k \in DOMAIN calls : calls[k].req.wellFormed /\ calls[k].req.method = "initialized"}

\* C12: the readiness flag is false at the start and is true exactly when an
\* `initialized` message has been handled: a step changes it only from false to true and
\* only by handling `initialized`; it is never reset, not by a second `initialized`;
\* handling `initialized` writes no response; and handling initialize, tools/list,
\* tools/call or any other line, and every later step of a tool call, leaves it as it is.
C12_FlagOnlySetByInitialized ==
    /\ ~initialized
    /\ [](initialized <=> InitializedLines # {})
    /\ [](\A k \in InitializedLines : ResponsesTo(k) = {})
    /\ [][initialized' # initialized =>
            /\ ~initialized /\ initialized'
            /\ Dispatches
            /\ Dispatching.wellFormed /\ Dispatching.method = "initialized"
            /\ out' = out]_vars
    /\ [][initialized => initialized']_vars

\* C12 witness: two `initialized` messages have been handled; the flag is true and
\* nothing has been written
C12_Witness ==
    /\ Len(calls) = 2
    /\ InitializedLines = {1, 2}
    /\ initialized
    /\ out = <<>>

-----------------------------------------------------------------------------
(* JavaScript values and strings of the value caster and the literal escaper *)

\* a primitive value: its type and String(value)
JSNull == [t |-> "null", s |-> <<"n", "u", "l", "l">>]
JSUndefined == [t |-> "undefined", s |-> <<"u", "n", "d", "e", "f", "i", "n", "e", "d">>]
JSBoolean(b) ==
    [t |-> "boolean", s |-> IF b THEN <<"t", "r", "u", "e">> ELSE <<"f", "a", "l", "s", "e">>]
JSNumber(text) == [t |-> "number", s |-> text]
JSString(text) == [t |-> "string", s |-> text]

CR == "\r"
Quote == "\""
Backslash == "\\"

\* String.prototype.startsWith, endsWith, includes
startsWith(str, prefix) ==
    Len(str) >= Len(prefix) /\ SubSeq(str, 1, Len(prefix)) = prefix
endsWith(str, suffix) ==
    Len(str) >= Len(suffix) /\ SubSeq(str, Len(str) - Len(suffix) + 1, Len(str)) = suffix
includes(str, c) == \E i \in DOMAIN str : str[i] = c

\* String.prototype.toLowerCase on the letters of the alphabet
UpperCase == <<"A", "B", "C", "D", "E", "F", "G", "H", "I", "J", "K", "L", "M",
               "N", "O", "P", "Q", "R", "S", "T", "U", "V", "W", "X", "Y", "Z">>
LowerCase == <<"a", "b", "c", "d", "e", "f", "g", "h", "i", "j", "k", "l", "m",
               "n", "o", "p", "q", "r", "s", "t", "u", "v", "w", "x", "y", "z">>
toLowerCase(str) ==
    [i \in DOMAIN str |->
        IF \E j \in DOMAIN UpperCase : UpperCase[j] = str[i]
        THEN LowerCase[CHOOSE j \in DOMAIN UpperCase : UpperCase[j] = str[i]]
        ELSE str[i]]

\* String.prototype.split(c): the pieces between the occurrences of c, at least one
RECURSIVE SplitAt(_, _, _)
SplitAt(str, c, piece) ==
    IF str = <<>> THEN <<piece>>
    ELSE IF Head(str) = c THEN <<piece>> \o SplitAt(Tail(str), c, <<>>)
    ELSE SplitAt(Tail(str), c, Append(piece, Head(str)))

split(str, c) == SplitAt(str, c, <<>>)

\* String.prototype.replace(/c/g, by): every occurrence of the character c, in one pass
RECURSIVE replace(_, _, _)
replace(str, c, by) ==
    IF str = <<>> THEN <<>>
    ELSE (IF Head(str) = c THEN by ELSE <<Head(str)>>) \o replace(Tail(str), c, by)

-----------------------------------------------------------------------------
(* Numerals *)

Digits == <<"0", "1", "2", "3", "4", "5", "6", "7", "8", "9">>
IsDigit(c) == \E i \in DOMAIN Digits : Digits[i] = c
AllDigits(str) == str # <<>> /\ \A i \in DOMAIN str : IsDigit(str[i])

\* the decimal digits of a natural number
RECURSIVE Decimal(_)
Decimal(n) ==
    IF n < 10 THEN <<Digits[n + 1]>> ELSE Append(Decimal(n \div 10), Digits[(n % 10) + 1])

RECURSIVE StripLeadingZeros(_)
StripLeadingZeros(d) ==
    IF Len(d) > 1 /\ Head(d) = "0" THEN StripLeadingZeros(Tail(d)) ELSE d

RECURSIVE StripTrailingZeros(_)
StripTrailingZeros(d) ==
    IF d # <<>> /\ d[Len(d)] = "0" THEN StripTrailingZeros(SubSeq(d, 1, Len(d) - 1)) ELSE d

RECURSIVE LeadingZeros(_)
LeadingZeros(d) ==
    IF d # <<>> /\ Head(d) = "0" THEN 1 + LeadingZeros(Tail(d)) ELSE 0

\* String(Number(str)) for a numeral str of at most 15 significant digits and below
\* 10^21: the shortest decimal form, with an exponent when the value is below 10^-6
NumberToString(str) ==
    LET neg == Head(str) = "-"
        u == IF neg THEN Tail(str) ELSE str
        dot == IF includes(u, ".") THEN CHOOSE i \in DOMAIN u : u[i] = "." ELSE Len(u) + 1
        int == StripLeadingZeros(SubSeq(u, 1, dot - 1))
        frac == StripTrailingZeros(SubSeq(u, dot + 1, Len(u)))
        zero == int = <<"0">> /\ frac = <<>>
        sign == IF neg /\ ~zero THEN <<"-">> ELSE <<>>
        z == LeadingZeros(frac)
        sig == SubSeq(frac, z + 1, Len(frac))
    IN  IF int # <<"0">> \/ zero
        THEN sign \o int \o (IF frac = <<>> THEN <<>> ELSE <<".">> \o frac)
        ELSE IF z < 6
        THEN sign \o <<"0", ".">> \o frac
        ELSE sign \o <<Head(sig)>> \o (IF Len(sig) > 1 THEN <<".">> \o Tail(sig) ELSE <<>>)
                  \o <<"e", "-">> \o Decimal(z + 1)

-----------------------------------------------------------------------------
(* universalCast, escapeForAppleScript, castAndEscape *)

True == <<"t", "r", "u", "e">>
Yes == <<"y", "e", "s">>
False == <<"f", "a", "l", "s", "e">>
No == <<"n", "o">>
DateWord == <<"d", "a", "t", "e">>
DateOpen == DateWord \o <<" ", Quote>>

\* a numeral has no fraction
IsNumeral_IntegerOnly(str) ==
    AllDigits(IF str # <<>> /\ Head(str) = "-" THEN Tail(str) ELSE str)

\* /^-?\d+(\.\d+)?$/.test(str)
IsNumeral(str) ==
    LET u == IF str # <<>> /\ Head(str) = "-" THEN Tail(str) ELSE str
    IN  \/ AllDigits(u)
        \/ \E i \in DOMAIN u :
              /\ u[i] = "."
              /\ AllDigits(SubSeq(u, 1, i - 1))
              /\ AllDigits(SubSeq(u, i + 1, Len(u)))

\* /^\d{4}-\d{2}-\d{2}/.test(str)
IsIsoDate(str) ==
    /\ Len(str) >= 10
    /\ \A i \in {1, 2, 3, 4, 6, 7, 9, 10} : IsDigit(str[i])
    /\ str[5] = "-" /\ str[8] = "-"

universalCast(value) ==
    IF value.t \in {"null", "undefined"} THEN JSNull
    ELSE
    LET str == Trim(value.s)
        lower == toLowerCase(str)
        parts == [i \in DOMAIN split(str, ",") |-> Trim(split(str, ",")[i])]
    IN  IF str = <<>> THEN JSString(<<>>)
        ELSE IF lower \in {True, Yes} THEN JSBoolean(TRUE)
        ELSE IF lower \in {False, No} THEN JSBoolean(FALSE)
        ELSE IF IsNumeral(str) THEN JSNumber(NumberToString(str))
        ELSE IF startsWith(str, <<"{">>) /\ endsWith(str, <<"}">>) THEN JSString(str)
        ELSE IF /\ includes(str, ",") /\ ~startsWith(str, <<"{">>)
                /\ \/ Len(parts) = 4 /\ \A i \in DOMAIN parts : IsNumeral(parts[i])
                   \/ Len(parts) >= 2
        THEN JSString(<<"{">> \o str \o <<"}">>)
        ELSE IF startsWith(str, DateOpen) \/ IsIsoDate(str)
        THEN JSString(DateOpen \o str \o <<Quote>>)
        ELSE IF \/ startsWith(str, <<Quote>>) /\ endsWith(str, <<Quote>>)
                \/ startsWith(str, <<"'">>) /\ endsWith(str, <<"'">>)
        THEN JSString(SubSeq(str, 2, Len(str) - 1))
        ELSE JSString(str)

\* the four replacements, in the order of the code; the second writes '\"', which is
\* the one-character string holding a double quote
escapeForAppleScript(str) ==
    IF str.t # "string" THEN str
    ELSE JSString(replace(replace(replace(replace(str.s,
                    Backslash, <<Backslash, Backslash>>),
                    Quote, <<Quote>>),
                    NL, <<Backslash, "n">>),
                    CR, <<Backslash, "r">>))

\* a test that looks for the brace only
IsPlainString_BraceOnly(casted) == casted.t = "string" /\ ~startsWith(casted.s, <<"{">>)

\* the strings that pass for an AppleScript literal: typeof casted === 'string' and
\* it starts neither with '{' nor with 'date'
IsPlainString(casted) ==
    casted.t = "string" /\ ~startsWith(casted.s, <<"{">>) /\ ~startsWith(casted.s, DateWord)

castAndEscape(value) ==
    LET casted == universalCast(value)
    IN  IF IsPlainString(casted) THEN escapeForAppleScript(casted) ELSE casted

-----------------------------------------------------------------------------
(* The caster and the escaper called on their own *)

\* the length of the texts that are enumerated
MaxText == 3

CastChars == {"0", "1", "-", ".", ",", "{", "}", Quote, "'", " ", "a", Backslash, NL}

\* all texts over the characters of S of length 0..n
TextsOver(S, n) == UNION {[1..k -> S] : k \in 0..n}

TinyNumeral == <<"0", ".", "0", "0", "0", "0", "0", "0", "1">>
IsoDate == <<"2", "0", "2", "4", "-", "0", "1", "-", "1", "5">>
\* an ordinary text that begins with the letters of the date marker
DateLike == DateWord \o <<"b", Backslash, NL, "1">>

\* longer texts, one or more for each rule of the caster
CastExamples ==
    {True, Yes, False, No, <<"T", "r", "u", "e">>, <<"Y", "E", "S">>, <<" ", "N", "o", " ">>,
     <<"4", "2">>, <<"-", "1", ".", "5", "0">>, <<"0", "4", "2">>, TinyNumeral,
     <<"1", ",", "2", ",", "3", ",", "4">>, <<"a", ",", "b">>, <<"{", "a", ",", "b", "}">>,
     <<"{", "a", ",", "b">>, IsoDate, IsoDate \o <<"T", "1", "0">>,
     DateOpen \o <<"x", Quote>>, DateWord, <<Quote, "a", " ", "b", Quote>>,
     <<"'", "a", Quote, "'">>, <<"a", CR, "b">>, <<"a", Backslash, Quote, NL, CR, "b">>,
     DateLike, <<" ">> \o DateLike \o <<NL>>}

CastInputs ==
    {JSString(text) : text \in TextsOver(CastChars, MaxText) \cup CastExamples}
    \cup {JSNull, JSUndefined, JSBoolean(TRUE), JSBoolean(FALSE),
          JSNumber(<<"4", "2">>), JSNumber(<<"-", "1", ".", "5">>),
          JSNumber(<<"1", "e", "-", "7">>), JSNumber(<<"N", "a", "N">>)}

\* universalCast(arg)
Cast ==
    /\ fn = "none"
    /\ fn' = "universalCast"
    /\ ret' = universalCast(arg)
    /\ UNCHANGED <<arg, framingVars, serverVars>>

\* universalCast of what universalCast returned
Recast ==
    /\ fn = "universalCast"
    /\ fn' = "recast"
    /\ arg' = ret
    /\ ret' = universalCast(ret)
    /\ UNCHANGED <<framingVars, serverVars>>

\* escapeForAppleScript(arg)
Escape ==
    /\ fn = "none"
    /\ fn' = "escapeForAppleScript"
    /\ ret' = escapeForAppleScript(arg)
    /\ UNCHANGED <<arg, framingVars, serverVars>>

\* castAndEscape(arg)
CastAndEscape ==
    /\ fn = "none"
    /\ fn' = "castAndEscape"
    /\ ret' = castAndEscape(arg)
    /\ UNCHANGED <<arg, framingVars, serverVars>>

InitCast ==
    /\ InitFraming /\ InitServer
    /\ fn = "none"
    /\ arg \in CastInputs
    /\ ret = Undefined

NextCast == Cast \/ Recast \/ Escape \/ CastAndEscape

SpecCast == InitCast /\ [][NextCast]_vars

\* C14: the caster is idempotent on booleans and numbers: when universalCast(v) is a
\* boolean or a number, casting it again returns the same value.
C14_CastIdempotent ==
    fn = "recast" /\ arg.t \in {"boolean", "number"} => ret = arg

\* the natural number written by a text of digits
RECURSIVE NaturalOf(_)
NaturalOf(d) ==
    IF d = <<>> THEN 0
    ELSE 10 * NaturalOf(SubSeq(d, 1, Len(d) - 1))
         + (CHOOSE i \in DOMAIN Digits : Digits[i] = d[Len(d)]) - 1

\* the value of a decimal text, with or without an exponent part e-N, as m * 10^-scale
ValueOf(text) ==
    LET neg == Head(text) = "-"
        u == IF neg THEN Tail(text) ELSE text
        ex == IF includes(u, "e") THEN CHOOSE i \in DOMAIN u : u[i] = "e" ELSE Len(u) + 1
        mant == SubSeq(u, 1, ex - 1)
        down == IF ex > Len(u) THEN 0 ELSE NaturalOf(SubSeq(u, ex + 2, Len(u)))
        dot == IF includes(mant, ".") THEN CHOOSE i \in DOMAIN mant : mant[i] = "."
               ELSE Len(mant) + 1
        digits == SubSeq(mant, 1, dot - 1) \o SubSeq(mant, dot + 1, Len(mant))
    IN  [m |-> (IF neg THEN -1 ELSE 1) * NaturalOf(digits),
         scale |-> (IF dot > Len(mant) THEN 0 ELSE Len(mant) - dot) + down]

SameNumber(a, b) ==
    LET x == ValueOf(a)
        y == ValueOf(b)
    IN  x.m * 10^(y.scale) = y.m * 10^(x.scale)

\* the text writes a number: an optional minus sign, digits, and at most one point with
\* digits on both sides
WritesNumber(str) ==
    LET pieces == split(IF Head(str) = "-" THEN Tail(str) ELSE str, ".")
    IN  Len(pieces) \in {1, 2} /\ \A i \in DOMAIN pieces : AllDigits(pieces[i])

\* the nine rules of the caster as the specification lists them; rule i applies to the
\* value v whose trimmed string form is str
RuleApplies(i, v, str) ==
    CASE i = 1 -> v.t \in {"null", "undefined"}
      [] i = 2 -> str = <<>>
      [] i = 3 -> toLowerCase(str) \in {True, Yes, False, No}
      [] i = 4 -> WritesNumber(str)
      [] i = 5 -> Head(str) = "{" /\ str[Len(str)] = "}"
      [] i = 6 -> includes(str, ",") /\ Head(str) # "{"
      [] i = 7 -> startsWith(str, DateOpen) \/ IsIsoDate(str)
      [] i = 8 -> Head(str) = str[Len(str)] /\ Head(str) \in {Quote, "'"}
      [] i = 9 -> TRUE

\* ret is what rule i gives
RuleGives(i, str, r) ==
    CASE i = 1 -> r = JSNull
      [] i = 2 -> r = JSString(<<>>)
      [] i = 3 -> r = JSBoolean(toLowerCase(str) \in {True, Yes})
      [] i = 4 -> r.t = "number" /\ SameNumber(r.s, str)
      [] i = 5 -> r = JSString(str)
      [] i = 6 -> r = JSString(<<"{">> \o str \o <<"}">>)
      [] i = 7 -> r = JSString(DateOpen \o str \o <<Quote>>)
      [] i = 8 -> r = JSString(SubSeq(str, 2, Len(str) - 1))
      [] i = 9 -> r = JSString(str)

FirstRule(v) ==
    CHOOSE i \in 1..9 :
        /\ RuleApplies(i, v, Trim(v.s))
        /\ \A j \in 1..(i - 1) : ~RuleApplies(j, v, Trim(v.s))

OneTwoThreeFour == <<"1", ",", "2", ",", "3", ",", "4">>

EscapedChar(c) ==
    CASE c = Backslash -> <<Backslash, Backslash>>
      [] c = Quote -> <<Backslash, Quote>>
      [] c = NL -> <<Backslash, "n">>
      [] c = CR -> <<Backslash, "r">>
      [] OTHER -> <<c>>

RECURSIVE EscapeReference(_)
EscapeReference(text) ==
    IF text = <<>> THEN <<>> ELSE EscapedChar(Head(text)) \o EscapeReference(Tail(text))

\* C16: escapeForAppleScript equals the reference escaper on every string, leaves a
\* string without backslash, double quote, newline and carriage return as it is, and
\* returns a value that is not a string unchanged.
C16_EscapeIsReference ==
    fn = "escapeForAppleScript" =>
        /\ arg.t = "string" => ret = JSString(EscapeReference(arg.s))
        /\ arg.t = "string" /\ (\A i \in DOMAIN arg.s : arg.s[i] \notin {Backslash, Quote, NL, CR})
              => ret = arg
        /\ arg.t # "string" => ret = arg

-----------------------------------------------------------------------------
(* Script synthesis: the handlers up to their call of executeAppleScript *)

\* The text of a script is a sequence whose elements are the fixed pieces of the
\* template, each one element, and the characters of the values inserted into it.

\* a test that takes every value but undefined and null for true
truthy_Defined(value) == value.t \notin {"undefined", "null"}

\* value ? ... : ... : the values that count as true
truthy(value) ==
    /\ value.t \notin {"undefined", "null"}
    /\ value # JSBoolean(FALSE)
    /\ ~(value.t = "number" /\ value.s \in {<<"0">>, <<"N", "a", "N">>})
    /\ value # JSString(<<>>)

\* ${value} in a template literal
String(value) == value.s

\* value ? castAndEscape(value) : null
castedOrNull(value) == IF truthy(value) THEN castAndEscape(value) ELSE JSNull

\* casted && typeof casted === 'string' && ... ? `"${casted.replace(/"/g, "'")}"` : casted
valueForScript(casted) ==
    IF truthy(casted) /\ IsPlainString(casted)
    THEN <<Quote>> \o replace(casted.s, Quote, <<"'">>) \o <<Quote>>
    ELSE String(casted)

\* one parameter in the template: its value, the keyword that goes before it, the text
\* written for the value, and whether the template writes anything for it
Fragment(value, keyword, text, present) ==
    [value |-> value, keyword |-> keyword, text |-> text, present |-> present]

\* an absent parameter is written as the keyword and the text of null
FragmentText_Always(f) == f.keyword \o f.text

\* ${param ? ' keyword ' + text : ''}, and ${text} for a parameter that is always written
FragmentText(f) == IF f.present THEN f.keyword \o f.text ELSE <<>>

RECURSIVE Fragments(_)
Fragments(fs) == IF fs = <<>> THEN <<>> ELSE FragmentText(Head(fs)) \o Fragments(Tail(fs))

\* the template around the command line
EndTell == <<NL, "      ", "end tell", NL, "    ">>
TellSafari(command) ==
    <<NL, "      ", "tell application ", Quote, "Safari", Quote, NL, "        ">>
    \o command \o EndTell

NoScript == <<>>
Thrown(message) == [throws |-> TRUE, error |-> message, script |-> NoScript, emitted |-> <<>>]
\* the script of a handler: the command, the fragments of its parameters and the
\* properties record, whose values are the fragments props
Synthesized(command, fs, record, props) ==
    [throws |-> FALSE, error |-> Undefined,
     script |-> TellSafari(command \o Fragments(fs) \o record),
     emitted |-> fs \o props]

\* !x || typeof x !== "string"
NotAString(value) == ~truthy(value) \/ value.t # "string"
\* x === undefined || x === null
Missing(value) == value.t \in {"undefined", "null"}

closeDocument(a) ==
    LET target_document_required_string == a[1]
        saving_optional_save_options == a[2]
        saving_in_optional_file == a[3]
        castedDocument == castAndEscape(target_document_required_string)
        castedSaving == castedOrNull(saving_optional_save_options)
        castedSaving_in == castedOrNull(saving_in_optional_file)
    IN  IF NotAString(target_document_required_string)
        THEN Thrown("target_document_required_string is required and must be a string")
        ELSE Synthesized(<<"close ">>,
                <<Fragment(target_document_required_string, <<>>, String(castedDocument), TRUE),
                  Fragment(saving_optional_save_options, <<" saving ">>,
                           valueForScript(castedSaving), truthy(saving_optional_save_options)),
                  Fragment(saving_in_optional_file, <<" saving in ">>,
                           valueForScript(castedSaving_in), truthy(saving_in_optional_file))>>,
                <<>>, <<>>)

setIndexOfWindow(a) ==
    LET target_window_required_string == a[1]
        value_required_integer == a[2]
        castedWindow == castAndEscape(target_window_required_string)
        castedValue == castAndEscape(value_required_integer)
        valueForScriptValue ==
            IF IsPlainString(castedValue) THEN <<Quote>> \o castedValue.s \o <<Quote>>
            ELSE String(castedValue)
    IN  IF NotAString(target_window_required_string)
        THEN Thrown("target_window_required_string is required and must be a string")
        ELSE IF Missing(value_required_integer)
        THEN Thrown("value_required_integer is required")
        ELSE Synthesized(<<"set index of ">>,
                <<Fragment(target_window_required_string, <<>>, String(castedWindow), TRUE),
                  Fragment(value_required_integer, <<" to ">>, valueForScriptValue, TRUE)>>,
                <<>>, <<>>)

addReadingListItem(a) ==
    LET direct_parameter_required_text == a[1]
        and_preview_text_optional_text == a[2]
        with_title_optional_text == a[3]
        castedDirect_parameter == castedOrNull(direct_parameter_required_text)
        castedAnd_preview_text == castedOrNull(and_preview_text_optional_text)
        castedWith_title == castedOrNull(with_title_optional_text)
    IN  IF Missing(direct_parameter_required_text)
        THEN Thrown("direct_parameter_required_text is required")
        ELSE Synthesized(<<"add reading list item ">>,
                <<Fragment(direct_parameter_required_text, <<>>,
                           String(castedDirect_parameter), TRUE),
                  Fragment(and_preview_text_optional_text, <<" and preview text ">>,
                           String(castedAnd_preview_text), truthy(and_preview_text_optional_text)),
                  Fragment(with_title_optional_text, <<" with title ">>,
                           String(castedWith_title), truthy(with_title_optional_text))>>,
                <<>>, <<>>)

duplicate(a) ==
    LET direct_parameter_required_specifier == a[1]
        to_optional_location_specifier == a[2]
        with_properties_optional_record == a[3]
        castedDirect_parameter == castedOrNull(direct_parameter_required_specifier)
        castedTo == castedOrNull(to_optional_location_specifier)
        castedWith_properties == castedOrNull(with_properties_optional_record)
    IN  IF Missing(direct_parameter_required_specifier)
        THEN Thrown("direct_parameter_required_specifier is required")
        ELSE Synthesized(<<"duplicate ">>,
                <<Fragment(direct_parameter_required_specifier, <<>>,
                           String(castedDirect_parameter), TRUE),
                  Fragment(to_optional_location_specifier, <<" to ">>,
                           String(castedTo), truthy(to_optional_location_specifier)),
                  Fragment(with_properties_optional_record, <<" with properties ">>,
                           String(castedWith_properties), truthy(with_properties_optional_record))>>,
                <<>>, <<>>)

printDocument(a) ==
    LET target_document_required_string == a[1]
        with_properties_optional_print_settings == a[2]
        print_dialog_optional_boolean == a[3]
        castedDocument == castAndEscape(target_document_required_string)
        castedWith_properties == castedOrNull(with_properties_optional_print_settings)
        castedPrint_dialog == castedOrNull(print_dialog_optional_boolean)
    IN  IF NotAString(target_document_required_string)
        THEN Thrown("target_document_required_string is required and must be a string")
        ELSE Synthesized(<<"print ">>,
                <<Fragment(target_document_required_string, <<>>, String(castedDocument), TRUE),
                  Fragment(with_properties_optional_print_settings, <<" with properties ">>,
                           valueForScript(castedWith_properties),
                           truthy(with_properties_optional_print_settings)),
                  Fragment(print_dialog_optional_boolean, <<" print dialog ">>,
                           valueForScript(castedPrint_dialog),
                           truthy(print_dialog_optional_boolean))>>,
                <<>>, <<>>)

quit(a) ==
    LET saving_optional_save_options == a[1]
        castedSaving == castedOrNull(saving_optional_save_options)
    IN  Synthesized(<<"quit">>,
            <<Fragment(saving_optional_save_options, <<" saving ">>,
                       String(castedSaving), truthy(saving_optional_save_options))>>,
            <<>>, <<>>)

-----------------------------------------------------------------------------
(* buildPropertiesRecord and makeWindow *)

\* a filter that keeps the values that count as true
IsDefinedProp_Truthy(p) == truthy(p.value)

\* p.value !== undefined && p.value !== null && p.value !== ''
IsDefinedProp(p) == p.value.t \notin {"undefined", "null"} /\ p.value # JSString(<<>>)

definedProps(propertyParams) == SelectSeq(propertyParams, IsDefinedProp)

\* the text written for the value of a property
propValue(castedValue) ==
    IF IsPlainString(castedValue)
    THEN <<Quote>> \o replace(castedValue.s, Quote, <<"'">>) \o <<Quote>>
    ELSE String(castedValue)

\* `${p.prop}:...`
propString(p) == <<p.prop, ":">> \o propValue(castAndEscape(p.value))

\* Array.prototype.join(', ') of the texts of the properties
RECURSIVE join(_)
join(props) ==
    IF props = <<>> THEN <<>>
    ELSE IF Len(props) = 1 THEN propString(Head(props))
    ELSE propString(Head(props)) \o <<", ">> \o join(Tail(props))

buildPropertiesRecord(propertyParams) ==
    IF definedProps(propertyParams) = <<>> THEN <<>>
    ELSE <<" with properties {">> \o join(definedProps(propertyParams)) \o <<"}">>

\* the fragments of the values of the properties
PropFragments(propertyParams) ==
    [i \in DOMAIN propertyParams |->
        Fragment(propertyParams[i].value, <<propertyParams[i].prop, ":">>,
                 propValue(castAndEscape(propertyParams[i].value)),
                 IsDefinedProp(propertyParams[i]))]

WindowProps == <<"index", "current tab", "zoomed", "miniaturized", "visible", "bounds">>

makeWindow(a) ==
    LET at_optional_location_specifier == a[1]
        with_data_optional_any == a[2]
        castedAt == castedOrNull(at_optional_location_specifier)
        castedWith_data == castedOrNull(with_data_optional_any)
        propertyParams == [i \in DOMAIN WindowProps |-> [prop |-> WindowProps[i], value |-> a[i + 2]]]
    IN  Synthesized(<<"make new window ">>,
            <<Fragment(at_optional_location_specifier, <<" at ">>,
                       valueForScript(castedAt), truthy(at_optional_location_specifier)),
              Fragment(with_data_optional_any, <<" with data ">>,
                       valueForScript(castedWith_data), truthy(with_data_optional_any))>>,
            buildPropertiesRecord(propertyParams), PropFragments(propertyParams))

-----------------------------------------------------------------------------
(* The handlers called on their own *)

\* a text with a double quote in it, and one with a newline
QuotedText == <<"a", Quote, "b">>
TwoLines == <<"a", NL, "b">>

\* the values an argument of a tool call may have
ArgValues ==
    {JSUndefined, JSNull, JSBoolean(FALSE), JSNumber(<<"0">>),
     JSString(<<>>), JSString(<<"a">>), JSString(QuotedText), JSString(TwoLines),
     JSString(<<"1", ",", "2">>), JSString(<<"7">>)}

\* the values of the two clauses of make_window and of each of its six properties
ClauseValues == {JSUndefined, JSString(<<"a">>), JSString(QuotedText)}
PropValues ==
    <<{JSUndefined, JSNumber(<<"0">>), JSString(<<"7">>)},
      {JSUndefined, JSString(QuotedText)},
      {JSUndefined, JSBoolean(FALSE), JSString(<<>>)},
      {JSUndefined, JSNull},
      {JSUndefined, JSString(True)},
      {JSUndefined, JSString(OneTwoThreeFour)}>>

\* the calls of the handlers: the tool and the arguments in the order of the parameters
HandlerCalls ==
    {[tool |-> t, args |-> <<x, y, z>>] :
        t \in {"close_document", "add_reading_list_item", "duplicate"},
        x \in ArgValues, y \in ArgValues, z \in ArgValues}
    \cup {[tool |-> "set_index_of_window", args |-> <<x, y>>] : x \in ArgValues, y \in ArgValues}
    \cup {[tool |-> "print_document", args |-> <<x, y, z>>] :
            x \in {JSString(<<"a">>), JSNumber(<<"0">>)}, y \in ArgValues,
            z \in ArgValues \cup {JSBoolean(TRUE)}}
    \cup {[tool |-> "quit", args |-> <<x>>] : x \in ArgValues \cup {JSBoolean(TRUE)}}
    \cup {[tool |-> "make_window", args |-> <<x, y, p1, p2, p3, p4, p5, p6>>] :
            x \in ClauseValues, y \in ClauseValues,
            p1 \in PropValues[1], p2 \in PropValues[2], p3 \in PropValues[3],
            p4 \in PropValues[4], p5 \in PropValues[5], p6 \in PropValues[6]}

\* a handler runs up to its call of executeAppleScript
Handle(tool, name, result) ==
    /\ fn = "none"
    /\ arg.tool = tool
    /\ fn' = name
    /\ ret' = result
    /\ UNCHANGED <<arg, framingVars, serverVars>>

CloseDocument == Handle("close_document", "closeDocument", closeDocument(arg.args))
SetIndexOfWindow == Handle("set_index_of_window", "setIndexOfWindow", setIndexOfWindow(arg.args))
AddReadingListItem ==
    Handle("add_reading_list_item", "addReadingListItem", addReadingListItem(arg.args))
Duplicate == Handle("duplicate", "duplicate", duplicate(arg.args))
MakeWindow == Handle("make_window", "makeWindow", makeWindow(arg.args))
PrintDocument == Handle("print_document", "printDocument", printDocument(arg.args))
Quit == Handle("quit", "quit", quit(arg.args))

InitScript ==
    /\ InitFraming /\ InitServer
    /\ fn = "none"
    /\ arg \in HandlerCalls
    /\ ret = Undefined

NextScript ==
    \/ CloseDocument
    \/ SetIndexOfWindow
    \/ AddReadingListItem
    \/ Duplicate
    \/ MakeWindow
    \/ PrintDocument
    \/ Quit

SpecScript == InitScript /\ [][NextScript]_vars

\* the handler has synthesized a script
HasScript == fn \notin {"none"} /\ ~ret.throws

\* the fragments that the script contains
Written == {i \in DOMAIN ret.emitted : ret.emitted[i].present}

\* the value is emitted as a string: what the caster makes of it is a string that is not
\* in the form of a list, a record or a date
StringKind(value) == IsPlainString(universalCast(value))

\* a double-quoted literal: it opens and closes with a double quote, and between them
\* every double quote has a backslash before it that is not itself escaped, and there is
\* no raw newline and no raw carriage return
RECURSIVE SafeBody(_)
SafeBody(body) ==
    IF body = <<>> THEN TRUE
    ELSE IF Head(body) = Backslash THEN Len(body) >= 2 /\ SafeBody(Tail(Tail(body)))
    ELSE Head(body) \notin {Quote, NL, CR} /\ SafeBody(Tail(body))

IsOneLiteral(text) ==
    /\ Len(text) >= 2
    /\ Head(text) = Quote /\ text[Len(text)] = Quote
    /\ SafeBody(SubSeq(text, 2, Len(text) - 1))

\* C17: no argument can close the literal it is written in: in the script of every
\* handler, every argument emitted as a string is one double-quoted literal whose text
\* has no unescaped double quote and no raw newline or carriage return.
C17_NoLiteralInjection ==
    HasScript =>
        \A i \in Written : StringKind(ret.emitted[i].value) => IsOneLiteral(ret.emitted[i].text)

\* C18: the text written for a parameter is determined by the kind of its cast value:
\* a string that is not in the form of a list, a record or a date is written escaped and
\* between double quotes, and a number, a boolean, a list, a record or a date is written
\* as it is, without quotes; this for every parameter of every handler.
C18_QuotedByKind ==
    HasScript =>
        \A i \in Written :
            LET casted == universalCast(ret.emitted[i].value)
            IN  ret.emitted[i].text =
                    IF IsPlainString(casted)
                    THEN <<Quote>> \o escapeForAppleScript(casted).s \o <<Quote>>
                    ELSE String(casted)

\* the command each handler writes
Command(name) ==
    CASE name = "closeDocument" -> "close "
      [] name = "setIndexOfWindow" -> "set index of "
      [] name = "addReadingListItem" -> "add reading list item "
      [] name = "duplicate" -> "duplicate "
      [] name = "makeWindow" -> "make new window "
      [] name = "printDocument" -> "print "
      [] name = "quit" -> "quit"

\* the positions of the parameters written as clauses, of the optional ones among
\* them, and of the properties
Clauses(name) == IF name = "makeWindow" THEN {1, 2} ELSE DOMAIN ret.emitted
Props(name) == IF name = "makeWindow" THEN 3..8 ELSE {}
OptionalParams(name) ==
    CASE name = "setIndexOfWindow" -> {}
      [] name = "makeWindow" -> 1..8
      [] name = "quit" -> {1}
      [] OTHER -> {2, 3}

\* the value of a property counts: it is defined and not the empty string
DefinedNonEmpty(value) == value \notin {JSUndefined, JSNull, JSString(<<>>)}

\* the clauses written for the parameters of the set I, in the order of the parameters
RECURSIVE ClausesOf(_, _)
ClausesOf(i, I) ==
    IF i > Len(ret.emitted) THEN <<>>
    ELSE (IF i \in I /\ ret.emitted[i].present
          THEN ret.emitted[i].keyword \o ret.emitted[i].text ELSE <<>>)
         \o ClausesOf(i + 1, I)

\* the entries key:value of the properties of the set I whose value counts, in the order
\* of their declaration, with a comma and a space between two of them
RECURSIVE EntriesOf(_, _, _)
EntriesOf(i, I, first) ==
    IF i > Len(ret.emitted) THEN <<>>
    ELSE IF i \in I /\ DefinedNonEmpty(ret.emitted[i].value)
    THEN (IF first THEN <<>> ELSE <<", ">>) \o ret.emitted[i].keyword \o ret.emitted[i].text
         \o EntriesOf(i + 1, I, FALSE)
    ELSE EntriesOf(i + 1, I, first)

\* the properties clause for the properties of the set I: none when no value counts
RecordOf(I) ==
    IF EntriesOf(1, I, TRUE) = <<>> THEN <<>>
    ELSE <<" with properties {">> \o EntriesOf(1, I, TRUE) \o <<"}">>

TokenIn(token, text) == \E j \in DOMAIN text : text[j] = token

\* C19: when an optional parameter is absent (undefined), the script has neither its
\* keyword nor its property key, and it is the script made of the command and of the
\* other parameters alone: no empty and no null literal stands in for the absent one.
C19_AbsentOptionalOmitted ==
    HasScript =>
        \A i \in OptionalParams(fn) :
            ret.emitted[i].value = JSUndefined =>
                /\ \A k \in DOMAIN ret.emitted[i].keyword :
                        ret.emitted[i].keyword[k] # ":" => ~TokenIn(ret.emitted[i].keyword[k], ret.script)
                /\ ret.script =
                     TellSafari(<<Command(fn)>> \o ClausesOf(1, Clauses(fn) \ {i})
                                \o RecordOf(Props(fn) \ {i}))

\* C19 witness: close_document without `saving` and with `saving in`: the script is
\* close a saving in "a"
C19_Witness ==
    /\ fn = "closeDocument"
    /\ arg.args = <<JSString(<<"a">>), JSUndefined, JSString(<<"a">>)>>
    /\ ~ret.throws
    /\ ret.script = TellSafari(<<"close ", "a", " saving in ", Quote, "a", Quote>>)

\* the positions of a token in a text
Places(token, text) == {j \in DOMAIN text : text[j] = token}

\* the properties of the call whose value counts
Counted == {i \in Props(fn) : DefinedNonEmpty(ret.emitted[i].value)}

\* C20: the properties record of make_window has exactly the properties whose value is
\* defined and not the empty string, one entry key:value each, in the order of their
\* declaration, inside one pair of braces after `with properties`; and when no property
\* has such a value the builder returns the empty string: the script has no
\* `with properties` clause and no braces.
C20_PropertiesRecord ==
    HasScript /\ fn = "makeWindow" =>
        /\ ret.script = TellSafari(<<Command(fn)>> \o ClausesOf(1, Clauses(fn)) \o RecordOf(Props(fn)))
        /\ \A i \in Props(fn) :
              Cardinality(Places(ret.emitted[i].keyword[1], ret.script))
                  = IF i \in Counted THEN 1 ELSE 0
        /\ \A i \in Counted : \A j \in Counted :
              i < j => \A x \in Places(ret.emitted[i].keyword[1], ret.script) :
                       \A y \in Places(ret.emitted[j].keyword[1], ret.script) : x < y
        /\ Cardinality(Places(" with properties {", ret.script)) = IF Counted = {} THEN 0 ELSE 1
        /\ Counted = {} => Places("{", ret.script) = {} /\ Places("}", ret.script) = {}
        /\ Counted # {} => ret.script[Len(ret.script) - Len(EndTell)] = "}"
        /\ Cardinality(Places(", ", ret.script)) = IF Counted = {} THEN 0 ELSE Cardinality(Counted) - 1
        /\ Counted = {} => buildPropertiesRecord(
                              [i \in 1..6 |-> [prop |-> WindowProps[i], value |-> arg.args[i + 2]]]) = <<>>

\* C20 witness: make_window with index 0 and zoomed false and no other property: the
\* record is {index:0, zoomed:false}
C20_Witness ==
    /\ fn = "makeWindow"
    /\ arg.args = <<JSUndefined, JSUndefined, JSNumber(<<"0">>), JSUndefined, JSBoolean(FALSE),
                    JSUndefined, JSUndefined, JSUndefined>>
    /\ ret.script = TellSafari(<<"make new window ", " with properties {", "index", ":", "0", ", ",
                                 "zoomed", ":", "f", "a", "l", "s", "e", "}">>)

-----------------------------------------------------------------------------
(* sendResponse: the text written to standard output *)

\* the argument of the model's tool calls as a value of the caster
FileText == <<"/", "a", ".", "h", "t", "m", "l">>
FileValue(v) == IF v = "/a.html" THEN JSString(FileText) ELSE JSUndefined

\* the script of the handler of a tool call
ScriptOf(request) ==
    IF request.params.name = "open"
    THEN TellSafari(<<"open ">> \o String(castedOrNull(
                        FileValue(request.params.arguments.direct_parameter_required_file))))
    ELSE TellSafari(<<"count each document ">>)

\* the characters of a string written between the quotes as they are
JSONString_Raw(text) == <<Quote>> \o text \o <<Quote>>

\* JSON.stringify of a character of a string: the double quote, the backslash, the
\* newline and the carriage return are written as escapes
JSONChar(c) ==
    CASE c = Quote -> <<Backslash, Quote>>
      [] c = Backslash -> <<Backslash, Backslash>>
      [] c = NL -> <<Backslash, "n">>
      [] c = CR -> <<Backslash, "r">>
      [] OTHER -> <<c>>

RECURSIVE JSONChars(_)
JSONChars(text) ==
    IF text = <<>> THEN <<>> ELSE JSONChar(Head(text)) \o JSONChars(Tail(text))

\* JSON.stringify of a string
JSONString(text) == <<Quote>> \o JSONChars(text) \o <<Quote>>

\* JSON.stringify(request.params.arguments, null, 2) as a member of the payload
PrettyArguments(arguments) ==
    IF arguments.direct_parameter_required_file = Undefined THEN <<"{}">>
    ELSE <<"{", NL, "    ">> \o JSONString(<<"direct_parameter_required_file">>) \o <<": ">>
         \o JSONString(FileValue(arguments.direct_parameter_required_file).s) \o <<NL, "  ", "}">>

\* the members of a payload in the order of the object literal
MemberOrder == <<"success", "error", "message", "script", "tool", "args">>

PrettyMember(name, p, request) ==
    <<"  ">> \o JSONString(<<name>>) \o <<": ">>
    \o CASE name = "success" -> <<IF p.success THEN "true" ELSE "false">>
         [] name = "error" -> JSONString(<<p.error>>)
         [] name = "message" -> JSONString(p.message)
         [] name = "script" -> JSONString(ScriptOf(request))
         [] name = "tool" -> JSONString(<<p.tool>>)
         [] name = "args" -> PrettyArguments(p.arguments)

RECURSIVE PrettyMembers(_, _, _)
PrettyMembers(names, p, request) ==
    IF names = <<>> THEN <<>>
    ELSE PrettyMember(Head(names), p, request)
         \o (IF Len(names) > 1 THEN <<",", NL>> ELSE <<>>)
         \o PrettyMembers(Tail(names), p, request)

\* JSON.stringify(payload, null, 2): one member on each line
Pretty(p, request) ==
    LET IsMember(name) == name \in p.members
    IN  <<"{", NL>> \o PrettyMembers(SelectSeq(MemberOrder, IsMember), p, request) \o <<NL, "}">>

\* the result of initialize, and of tools/list with the catalog left out
InitializeResult ==
    <<"{", Quote, "protocolVersion", Quote, ":", Quote, "2024-11-05", Quote, ",",
      Quote, "capabilities", Quote, ":{", Quote, "tools", Quote, ":{}},",
      Quote, "serverInfo", Quote, ":{", Quote, "name", Quote, ":", Quote, "safari-applescript", Quote, ",",
      Quote, "version", Quote, ":", Quote, "0.1.0", Quote, "}}">>
ToolsListResult == <<"{", Quote, "tools", Quote, ":[", "]}">>

\* const responseStr = JSON.stringify(response)
responseStr(response, request) ==
    <<"{", Quote, "jsonrpc", Quote, ":", Quote, "2.0", Quote>>
    \o (IF response.id = Undefined THEN <<>> ELSE <<",", Quote, "id", Quote, ":", response.id>>)
    \o <<",", Quote, response.member, Quote, ":">>
    \o (CASE response.body = "initialize" -> InitializeResult
          [] response.body = "tools/list" -> ToolsListResult
          [] OTHER -> <<"{", Quote, "content", Quote, ":[{", Quote, "type", Quote, ":",
                        Quote, "text", Quote, ",", Quote, "text", Quote, ":">>
                      \o JSONString(Pretty(response.payload, request)) \o <<"}]}">>)
    \o <<"}">>

\* the texts of the responses written
ResponseTexts == [j \in DOMAIN out |-> responseStr(out[j], calls[out[j].req].req)]

\* process.stdout.write(responseStr + '\n') for each response, in the order of the writes
RECURSIVE Written_Stdout(_)
Written_Stdout(texts) ==
    IF texts = <<>> THEN <<>>
    ELSE Written_Stdout(SubSeq(texts, 1, Len(texts) - 1)) \o texts[Len(texts)] \o <<NL>>

stdout == Written_Stdout(ResponseTexts)

\* the number of characters of the texts before the j-th and of the newlines after them
RECURSIVE WrittenBefore(_, _)
WrittenBefore(texts, j) ==
    IF j = 1 THEN 0 ELSE WrittenBefore(texts, j - 1) + Len(texts[j - 1]) + 1

\* C13: standard output is a concatenation of complete response lines: it is made of
\* the serialized responses in the order of their writes, each one JSON object without a
\* raw newline and each followed by one newline, so that it has as many newlines as
\* responses and nothing before, between or after the lines; and a step writes nothing
\* or appends exactly one response to those written before, which stay as they are.
C13_StdoutIsResponseLines ==
    /\ [](\A lines \in {ResponseTexts} : \A text \in {Written_Stdout(lines)} :
              /\ Len(text) = WrittenBefore(lines, Len(out) + 1)
              /\ Cardinality(Places(NL, text)) = Len(out)
              /\ \A j \in DOMAIN out : \A before \in {WrittenBefore(lines, j)} :
                    /\ SubSeq(text, before + 1, before + Len(lines[j])) = lines[j]
                    /\ text[before + Len(lines[j]) + 1] = NL
                    /\ ~includes(lines[j], NL)
                    /\ Head(lines[j]) = "{" /\ lines[j][Len(lines[j])] = "}")
    /\ [][/\ out' = out \/ (Len(out') = Len(out) + 1 /\ SubSeq(out', 1, Len(out)) = out)
          /\ \A j \in DOMAIN out : calls'[out[j].req].req = calls[out[j].req].req]_vars

\* C13 witness: two responses have been written, the second one the result of `open`,
\* whose script has newlines in it
C13_Witness ==
    /\ Len(out) = 2
    /\ out[2].payload.members = {"success", "message", "script"}
    /\ calls[out[2].req].req.params.name = "open"
    /\ includes(ScriptOf(calls[out[2].req].req), NL)
    /\ Cardinality(Places(NL, stdout)) = 2

-----------------------------------------------------------------------------
(* Validation of the required arguments *)

\* inputSchema.required of the tools, with the type that inputSchema.properties gives:
\* the place of the parameter in the handler's parameters and the type of its value
RequiredOf(tool) ==
    CASE tool = "close_document" -> {[i |-> 1, type |-> "string"]}
      [] tool = "set_index_of_window" ->
            {[i |-> 1, type |-> "string"], [i |-> 2, type |-> "number"]}
      [] tool = "add_reading_list_item" -> {[i |-> 1, type |-> "string"]}
      [] tool = "duplicate" -> {[i |-> 1, type |-> "string"]}
      [] tool = "print_document" -> {[i |-> 1, type |-> "string"]}
      [] OTHER -> {}

\* the required arguments of the call that are missing or are not of their type
InvalidRequired(call) ==
    {p \in RequiredOf(call.tool) :
        Missing(call.args[p.i]) \/ call.args[p.i].t # p.type}

\* C21: a tool call whose required argument is missing or has the wrong type, whatever
\* the tool and the argument, ends in an error raised by the handler before any script
\* is synthesized: the handler throws and there is no script.
C21_InvalidRequiredRejected ==
    (fn # "none" /\ InvalidRequired(arg) # {}) => (ret.throws /\ ret.script = NoScript)

-----------------------------------------------------------------------------
(* The order in which the calls are started *)

\* a tools/call whose handling starts an interpreter process: the availability probe
StartsProcess(request) == IsToolsCall(request) /\ NeedsProbe(request.params.name)

FirstSpawn == Event("spawn", "probe", 0)

\* C22: the calls are started in the order of their lines: the step that hands a line
\* to handleMessage runs the call up to the start of its first interpreter process and
\* touches no earlier call, so that when a later line is handed over every earlier
\* tools/call has had its first step and has started its first process, whatever
\* processes have ended in between; and the entries never change places.
C22_StartedInOrder ==
    /\ [](\A k \in DOMAIN calls :
            StartsProcess(calls[k].req) =>
                /\ "probe" \in calls[k].started
                /\ calls[k].trace # <<>>
                /\ calls[k].pc = "probe" => calls[k].trace[1] = FirstSpawn)
    /\ [][Dispatches =>
            /\ SubSeq(calls', 1, Len(calls)) = calls
            /\ StartsProcess(Dispatching) =>
                /\ calls'[Len(calls')].trace = <<FirstSpawn>>
                /\ calls'[Len(calls')].phase = "running"]_vars
    /\ [][/\ Len(calls') >= Len(calls)
          /\ \A k \in DOMAIN calls : calls'[k].req = calls[k].req]_vars

\* C22 witness: two tools/call lines one after the other; the second has been answered
\* while the first process of the first, started before it, is still running
C22_Witness ==
    /\ Len(calls) = 2
    /\ StartsProcess(calls[1].req) /\ StartsProcess(calls[2].req)
    /\ calls[1].pc = "probe" /\ calls[1].phase = "running" /\ calls[1].attempt = 0
    /\ calls[2].pc = "done" /\ ResponsesTo(2) # {}

-----------------------------------------------------------------------------
(* The order of the responses *)

\* C23: whatever the order in which the responses are written, the response to a
\* tools/call is built from its own call alone: it carries the id of its request, it
\* is the only response to it, it is written when the call has come to its end, its
\* payload reports the output or the error of the call's own script, and a failure
\* payload echoes the tool name and the arguments of its own request.
C23_ResponsesOwnCall ==
    \A j \in ToolResponses :
        LET c == CallOf(j)
            p == out[j].payload
        IN  /\ out[j].id = c.req.id
            /\ \A i \in DOMAIN out : out[i].req = out[j].req => i = j
            /\ c.pc = "done"
            /\ c.result = "returned" => p = HandlerPayload(c.value)
            /\ c.result = "threw" =>
                /\ p.tool = c.req.params.name
                /\ p.arguments = c.req.params.arguments
                /\ c.exec = "threw" => p.error = c.error
            /\ c.result = "unavailable" => p = UnavailablePayload

\* C23 witness: two tools/call requests with different ids, tools and arguments; the
\* first one retries and the response to the second is written before the response to
\* the first, each with its own id and its own result
C23_Witness ==
    /\ Len(calls) = 2 /\ Len(out) = 2
    /\ out[1].req = 2 /\ out[2].req = 1
    /\ calls[1].req.params.name = "open" /\ calls[1].req.params.arguments = WithFile("/a.html")
    /\ calls[2].req.params.name = "count_document"
    /\ calls[1].attempt > 0
    /\ calls[1].req.id = "1" /\ calls[2].req.id = "2"
    /\ out[1].id = "2" /\ out[2].id = "1"
    /\ calls[2].result = "returned" /\ out[1].payload.message = <<"1">>
    /\ calls[1].result = "returned" /\ out[2].payload.message = ErrorText

-----------------------------------------------------------------------------
(* The date rule of the caster *)

\* a date literal: the date marker and then one double-quoted text and nothing else
IsDateLiteral(text) ==
    /\ startsWith(text, DateOpen)
    /\ Len(text) > Len(DateOpen)
    /\ text[Len(text)] = Quote
    /\ \A i \in (Len(DateOpen) + 1)..(Len(text) - 1) : text[i] # Quote

\* C24: when the trimmed input starts with an ISO date or with the date marker `date "`,
\* the caster returns a well-formed date literal, the date marker followed by exactly
\* one double-quoted text, and an input that is such a literal already is returned as
\* it is.
C24_DateLiteral ==
    fn \in {"universalCast", "recast"} =>
        LET str == Trim(String(arg))
        IN  (arg.t = "string" /\ (IsIsoDate(str) \/ startsWith(str, DateOpen))) =>
                /\ ret.t = "string"
                /\ IsDateLiteral(ret.s)
                /\ IsDateLiteral(str) => ret.s = str

-----------------------------------------------------------------------------
(* The readiness flag is not consulted *)

\* the text of the result of an initialize response
InitializeText(j) == responseStr(out[j], calls[out[j].req].req)

\* C25: the dispatch does not read the readiness flag: the step that handles a line
\* makes of the call and of the output what handleMessage makes of them with the flag
\* false and with the flag true; and initialize is answered every time it is handled,
\* with a result that holds the protocol version "2024-11-05" and the same server
\* metadata, the same text for every initialize up to the id.
C25_FlagNotConsulted ==
    /\ [][Dispatches =>
            \A flag \in BOOLEAN :
                LET r == handleMessage(Len(calls'), Dispatching, out, flag)
                IN  calls'[Len(calls')] = r.c /\ out' = r.o]_vars
    /\ [](\A k \in DOMAIN calls :
            (calls[k].req.wellFormed /\ calls[k].req.method = "initialize") =>
                /\ Cardinality(ResponsesTo(k)) = 1
                /\ \A j \in ResponsesTo(k) :
                    /\ out[j].member = "result"
                    /\ \E a \in 1..Len(InitializeText(j)) :
                        /\ SubSeq(InitializeText(j), a, a + Len(InitializeResult) - 1)
                                = InitializeResult
                        /\ a + Len(InitializeResult) = Len(InitializeText(j))
                    /\ TokenIn("2024-11-05", InitializeText(j))
                    /\ TokenIn("safari-applescript", InitializeText(j)))

\* C25 witness: a tools/call is handled and answered from its script's output before
\* any initialize or initialized has been received, and an initialize that comes after
\* it is answered too, the flag still false
C25_Witness ==
    /\ Len(calls) = 2 /\ ~initialized
    /\ calls[1].req.method = "tools/call" /\ calls[1].result = "returned"
    /\ calls[2].req.method = "initialize"
    /\ Len(out) = 2 /\ out[1].req = 2 /\ out[2].req = 1
    /\ out[2].payload.success

-----------------------------------------------------------------------------
(* The retained buffer *)

\* the part of the text after its last newline, the whole text when it has none
AfterLastNewline(t) ==
    LET nl == Newlines(t)
        last == IF nl = {} THEN 0 ELSE CHOOSE i \in nl : \A j \in nl : j <= i
    IN  SubSeq(t, last + 1, Len(t))

\* the newline-terminated lines of the text that are not white space only
NonBlankLines(t) == {e \in Newlines(t) : ~Blank(LineEndingAt(t, e))}

\* C26: after every chunk the buffer holds no newline and is exactly the part of the
\* input received so far that follows its last newline, empty when the input is empty
\* or ends with a newline; a line of white space only dispatches nothing, so there are
\* as many dispatched messages as lines that are not blank; and every dispatched
\* message is its line without the white space before and after it.
C26_BufferIsTail ==
    /\ ~includes(buffer, NL)
    /\ buffer = AfterLastNewline(received)
    /\ (received = <<>> \/ received[Len(received)] = NL) => buffer = <<>>
    /\ Len(dispatched) = Cardinality(NonBlankLines(received))
    /\ \A i \in DOMAIN dispatched :
        /\ dispatched[i] # <<>>
        /\ ~IsSpace(dispatched[i][1])
        /\ ~IsSpace(dispatched[i][Len(dispatched[i])])
        /\ \E e \in NonBlankLines(received) :
                IsTrimOf(dispatched[i], LineEndingAt(received, e))

\* C26 witness: a blank line, then a line with white space around its text, then an
\* incomplete line: one message has been dispatched, trimmed, and the buffer holds the
\* incomplete line
C26_Witness ==
    /\ received = <<NL, " ", "a", NL, "b">>
    /\ dispatched = <<<<"a">>>>
    /\ buffer = <<"b">>

-----------------------------------------------------------------------------
(* The availability probe *)

\* the call is in its probe, whose process is running
Probing(c) == c.pc = "probe" /\ c.phase = "running"

-----------------------------------------------------------------------------
(* startServer: the probe at startup and the construction of the server *)

\* While startServer runs, fn is "startServer" and arg is the position of the probe it
\* awaits; once the server is constructed fn is "constructed" and ret is what the
\* probe answered, which startServer does not look at.

\* the number of lines handed to handleMessage after the startup
MaxStartupMessages == 1

\* the executor's invocation made by the probe of startServer, which belongs to no request
StartupProbe == ExecStart(NewCall(Malformed), "probe")

\* a server that is constructed before the probe
Listening_FromStart(f) == TRUE

\* the 'data' listener is attached by the constructor, which startServer calls after
\* `await checkSafariAvailable()`
Listening(f) == f = "constructed"

\* a process of the startup probe ends
StartupProcExit(outcome) ==
    /\ fn = "startServer"
    /\ arg.phase = "running"
    /\ LET e == IF outcome.ok THEN ExecReturn(arg, outcome)
                ELSE IF GivesUp(arg.attempt) THEN ExecThrow(arg, outcome.kind)
                ELSE ExecWait(arg, outcome.kind)
       IN  /\ arg' = e
           /\ IF e.exec = "running"
              THEN fn' = fn /\ ret' = ret
              ELSE fn' = "constructed" /\ ret' = JSBoolean(checkSafariAvailable(e))
    /\ UNCHANGED <<framingVars, serverVars>>

\* the backoff timer of the startup probe fires
StartupTimerFire ==
    /\ fn = "startServer"
    /\ arg.phase = "waiting"
    /\ arg' = ExecRetry(arg)
    /\ UNCHANGED <<fn, ret, framingVars, serverVars>>

\* the chunks of input and the lines that arrive after the startup
StartupChunks == {<<"a">>, <<"a", NL>>}
StartupLines ==
    {[wellFormed |-> TRUE, method |-> "tools/list", id |-> IdOf(1), params |-> NoParams],
     [wellFormed |-> TRUE, method |-> "tools/call", id |-> IdOf(1),
      params |-> Params("count_document", NoArguments)]}

\* a chunk is delivered to the listener, once there is one
StartupData(data) == Listening(fn) /\ Data(data)

\* a line that the listener has cut off is handed to handleMessage
StartupDispatch(request) ==
    /\ Listening(fn)
    /\ Len(calls) < Len(dispatched)
    /\ Len(calls) < MaxStartupMessages
    /\ Dispatch(request)

InitStartup ==
    /\ InitFraming /\ InitServer
    /\ fn = "startServer"
    /\ arg = StartupProbe
    /\ ret = Undefined

NextStartup ==
    \/ \E outcome \in Outcomes("probe") : StartupProcExit(outcome)
    \/ StartupTimerFire
    \/ \E data \in StartupChunks : StartupData(data)
    \/ \E request \in StartupLines : StartupDispatch(request)
    \/ \E k \in 1..MaxStartupMessages : \E outcome \in AllOutcomes : ProcExit(k, outcome)
    \/ \E k \in 1..MaxStartupMessages : TimerFire(k)

SpecStartup == InitStartup /\ [][NextStartup]_vars

\* C28: until the startup probe has finished nothing is read, dispatched or answered:
\* while startServer awaits the probe the input received, the buffer, the dispatched
\* lines, the calls and the output are all empty; the server is constructed in the very
\* step in which the probe finishes, by a successful run or by the failure of its
\* fourth run, and in no other step; and it is constructed whatever the probe answered.
C28_NoInputBeforeStartupProbe ==
    /\ [](fn = "startServer" =>
            /\ received = <<>> /\ buffer = <<>> /\ dispatched = <<>>
            /\ calls = <<>> /\ out = <<>>
            /\ arg.exec = "running")
    /\ [](fn = "constructed" =>
            /\ arg.exec \in {"returned", "threw"}
            /\ arg.exec = "threw" => arg.trace = ExhaustedTrace("probe")
            /\ arg.exec = "returned" => Count(arg.trace, "spawn") = arg.attempt + 1)
    /\ [][/\ fn' # fn => (fn = "startServer" /\ fn' = "constructed" /\ arg.phase = "running")
          /\ (fn = "startServer" /\ arg'.exec # "running") => fn' = "constructed"
          /\ (received' # received \/ calls' # calls \/ out' # out) => fn = "constructed"]_vars

\* C28 witness: the startup probe has failed on all four runs, and the server then has
\* read a line and answered a tools/call from the output of its script
C28_Witness ==
    /\ fn = "constructed"
    /\ arg.exec = "threw" /\ arg.trace = ExhaustedTrace("probe")
    /\ Len(calls) = 1 /\ calls[1].req.method = "tools/call" /\ calls[1].result = "returned"
    /\ Len(out) = 1 /\ out[1].payload.success

-----------------------------------------------------------------------------
(* Optional clauses with a falsy value *)

\* the handler of the name, called with the arguments
HandlerOf(name, a) ==
    CASE name = "closeDocument" -> closeDocument(a)
      [] name = "setIndexOfWindow" -> setIndexOfWindow(a)
      [] name = "addReadingListItem" -> addReadingListItem(a)
      [] name = "duplicate" -> duplicate(a)
      [] name = "makeWindow" -> makeWindow(a)
      [] name = "printDocument" -> printDocument(a)
      [] name = "quit" -> quit(a)

\* the values that JavaScript takes for false, among those of the calls
FalsyValues == {JSUndefined, JSNull, JSBoolean(FALSE), JSNumber(<<"0">>), JSString(<<>>)}

\* the optional parameters written as clauses
OptionalClauses(name) == OptionalParams(name) \cap Clauses(name)

\* C29: an optional clause parameter whose value is false, 0 or the empty string is
\* treated as an absent one: the script is the script that the handler builds with the
\* parameter undefined and does not hold the keyword of the clause; and the clause is
\* in the script, keyword and value, exactly when the value is not one that
\* JavaScript takes for false.
C29_FalsyOptionalOmitted ==
    HasScript =>
        \A i \in OptionalClauses(fn) :
            LET value == arg.args[i]
                keyword == ret.emitted[i].keyword[1]
            IN  /\ value \in FalsyValues =>
                    /\ ret.script = HandlerOf(fn, [arg.args EXCEPT ![i] = JSUndefined]).script
                    /\ ~TokenIn(keyword, ret.script)
                /\ TokenIn(keyword, ret.script) <=> value \notin FalsyValues
                /\ value \notin FalsyValues =>
                    \E j \in Places(keyword, ret.script) :
                        SubSeq(ret.script, j + 1, j + Len(ret.emitted[i].text))
                            = ret.emitted[i].text

\* C29 witness: print_document with `print dialog` false: the script is print a, the
\* script of the call without the parameter
C29_Witness ==
    /\ fn = "printDocument"
    /\ arg.args = <<JSString(<<"a">>), JSUndefined, JSBoolean(FALSE)>>
    /\ ~ret.throws
    /\ ret.script = TellSafari(<<"print ", "a">>)
    /\ ret.script = printDocument(<<JSString(<<"a">>), JSUndefined, JSUndefined>>).script

-----------------------------------------------------------------------------
(* castAndEscape and the texts that look like a literal *)

\* text occurs in whole as a piece of the text within
OccursIn(text, within) ==
    \E a \in 0..(Len(within) - Len(text)) : SubSeq(within, a + 1, a + Len(text)) = text

\* the characters that the escaper rewrites, the double quote apart
NeedsEscape(text) == \E i \in DOMAIN text : text[i] \in {Backslash, NL, CR}

====
